---- MODULE Spec2Model ----
(***************************************************************************)
(* Comin (Community-Installer), src/main.py: one invocation of main().     *)
(* The state is the command line, the remote index, the download cache,    *)
(* the ledger file on disk, and the locals of main / update_packages.      *)
(* The variable log is a history of the side effects of the run (fetches,  *)
(* executed commands, ledger mutations, ledger file writes); console is    *)
(* the history of the warnings and reports printed.                        *)
(***************************************************************************)
EXTENDS Integers, Sequences, FiniteSets, TLC

VARIABLES mode, args, index, files, disk, disk0, pc, exit_code,
          packages, patterns, platform_key, state, selected_packages,
          ai, i, downloaded_file, ci, updates_available, clock,
          log, console

vars == <<mode, args, index, files, disk, disk0, pc, exit_code,
          packages, patterns, platform_key, state, selected_packages,
          ai, i, downloaded_file, ci, updates_available, clock,
          log, console>>

(* ------------------------------ bounds --------------------------------- *)

\* Longest catalog of the index.
MaxPkgs == 2

\* Length of a non-empty platform command sequence.
MaxCmds == 2

\* Longest list of requested tokens on the command line.
MaxArgs == 2

(* ------------------------------ data ----------------------------------- *)

None == "None"

\* str.lower() on the strings the model uses.
Lower(s) ==
  CASE s = "A" -> "a"
    [] s = "B" -> "b"
    [] s = "Dev" -> "dev"
    [] s = "Ops" -> "ops"
    [] OTHER -> s

\* pkg['url'].split('/')[-1]
Basename(url) ==
  CASE url = "http://h/x.tgz" -> "x.tgz"
    [] OTHER -> url

Range(s) == {s[k] : k \in DOMAIN s}

\* The command strings of a package: "c1", "c2", ... are modelled by 1, 2, ...
Commands(n) == [k \in 1..n |-> k]

\* An install_commands mapping without a key for any platform.
NoCommands == <<>>

\* The result of a lookup that finds no package (Python's None).
NoPackage == [name |-> None]

Package(n, v, u, c) == [name |-> n, version |-> v, url |-> u, install_commands |-> c]

(* ------------------------- pure functions ------------------------------ *)

\* detect_platform(): platform.system().lower() and distro.id().lower()
\* are the inputs.
detect_platform(system, distro_name) ==
  IF system = "darwin" THEN "macos"
  ELSE IF system = "linux" THEN
    IF distro_name \in {"debian", "ubuntu", "linuxmint"} THEN "debian"
    ELSE IF distro_name \in {"fedora", "centos", "rhel"} THEN "fedora"
    ELSE IF distro_name \in {"opensuse", "suse", "sles"} THEN "suse"
    ELSE "unknown"
  ELSE IF system = "windows" THEN "windows"
  ELSE "unknown"

\* next((p for p in packages if p['name'].lower() == pkg_name.lower()), None)
FindPackage(pkgs, pkg_name) ==
  LET hits == {k \in DOMAIN pkgs : Lower(pkgs[k].name) = Lower(pkg_name)}
  IN IF hits = {} THEN NoPackage
     ELSE pkgs[CHOOSE k \in hits : \A m \in hits : k <= m]

\* Mutant of AppendSelected: appends without the membership test.
AppendSelected_NoDedup(sel, pkg) == Append(sel, pkg)

\* if pkg not in selected_packages: selected_packages.append(pkg)
AppendSelected(sel, pkg) ==
  IF pkg \in Range(sel) THEN sel ELSE Append(sel, pkg)

\* patterns.get(pattern_name.lower(), [])
PatternNames(pats, pattern_name) ==
  IF Lower(pattern_name) \in DOMAIN pats THEN pats[Lower(pattern_name)] ELSE <<>>

\* The inner loop of the pattern selection: resolves the package names of one
\* pattern in order, starting from selection sel and console output out.
RECURSIVE ResolveNames(_, _, _, _, _)
ResolveNames(pkgs, pkg_names, pattern_name, sel, out) ==
  IF pkg_names = <<>> THEN [sel |-> sel, out |-> out]
  ELSE LET pkg == FindPackage(pkgs, Head(pkg_names))
       IN IF pkg # NoPackage
          THEN ResolveNames(pkgs, Tail(pkg_names), pattern_name,
                            AppendSelected(sel, pkg), out)
          ELSE ResolveNames(pkgs, Tail(pkg_names), pattern_name, sel,
                            Append(out, [msg |-> "pattern package not found",
                                         what |-> Head(pkg_names),
                                         of |-> pattern_name]))

\* pkg['install_commands'].get(platform_key, [])
PlatformCommands(pkg, key) ==
  IF key \in DOMAIN pkg.install_commands THEN pkg.install_commands[key] ELSE <<>>

\* Mutant of NeedsUpdate: the elif branch (a pinned index version that
\* differs from the ledger's) is missing.
NeedsUpdate_LatestOnly(pkg_version, installed_version) ==
  pkg_version = "latest" /\ installed_version # "latest"

\* The comparison of update_packages: the index version against the ledger's.
NeedsUpdate(pkg_version, installed_version) ==
  \/ pkg_version = "latest" /\ installed_version # "latest"
  \/ pkg_version # "latest" /\ installed_version # pkg_version

\* STATE_FILE: absent, unparsable, or a JSON mapping of names to entries.
AbsentFile == [kind |-> "absent", data |-> <<>>]

CorruptFile == [kind |-> "corrupt", data |-> <<>>]

JsonFile(mapping) == [kind |-> "json", data |-> mapping]

\* load_state(): the mapping of the ledger file, {} when absent or unparsable.
load_state(file) ==
  IF file.kind = "json" THEN file.data ELSE <<>>

(* ------------------------------ inputs --------------------------------- *)

Versions == {"latest", "1.0"}

LedgerVersions == {"latest", "1.0", "0.9"}

Urls == {"", "http://h/x.tgz"}

CacheFiles == {Basename(u) : u \in Urls \ {""}}

\* Package names by catalog position, for catalogs of distinct names.
NameSeq == <<"a", "B", "A", "b">>

\* Names of catalogs that may repeat a name, also up to letter case.
SelNames == {"a", "A", "b"}

\* Tokens of an install-by-name request ("z" names no package).
ReqTokens == {"a", "A", "B", "z"}

\* Tokens of an install-by-pattern request ("none" names no pattern).
PatTokens == {"dev", "Dev", "Ops", "none"}

PatKeys == {"dev", "Ops"}

PatLists == {<<>>, <<"a", "z">>, <<"B", "a">>, <<"a", "A">>}

\* install_commands: no key for the platform, or MaxCmds commands for it.
CmdChoices == {NoCommands, [debian |-> Commands(MaxCmds)]}

\* platform.system().lower(), distro.id().lower() of the machines considered.
Hosts == {<<"linux", "ubuntu">>, <<"linux", "arch">>, <<"freebsd", "">>}

SeqsUpTo(S, lo, hi) == UNION {[1..n -> S] : n \in lo..hi}

PartialMaps(K, V) == UNION {[S -> V] : S \in SUBSET K}

Entry(v, t) == [version |-> v, installed_at |-> t]

\* Catalogs of distinct names with every combination of version, url and
\* command sequence.
RunPkgs(n) ==
  {Package(n, v, u, c) : v \in Versions, u \in Urls, c \in CmdChoices}

RunCatalogs ==
  UNION {{cat \in [1..k -> UNION {RunPkgs(NameSeq[j]) : j \in 1..k}] :
            \A j \in 1..k : cat[j].name = NameSeq[j]} : k \in 0..MaxPkgs}

\* Catalogs whose names may repeat; the version tells two entries of one
\* name apart.
SelCatalogs ==
  {[j \in 1..Len(ns) |->
      Package(ns[j], IF j % 2 = 1 THEN "1.0" ELSE "latest", "",
              [debian |-> Commands(MaxCmds)])] : ns \in SeqsUpTo(SelNames, 0, MaxPkgs)}

\* Catalogs of distinct names; every second package has an empty command
\* list for the platform.
NamedCatalogs ==
  {[j \in 1..k |->
      Package(NameSeq[j], "1.0", "",
              [debian |-> IF j % 2 = 1 THEN Commands(MaxCmds) ELSE <<>>])] :
     k \in 0..MaxPkgs}

LedgerNames == {NameSeq[j] : j \in 1..MaxPkgs}

Ledgers == PartialMaps(LedgerNames, {Entry(v, 0) : v \in LedgerVersions})

InstallLedgers ==
  {AbsentFile, CorruptFile, JsonFile([n \in LedgerNames |-> Entry("0.9", 0)])}

PatternIndexes == PartialMaps(PatKeys, PatLists)

NoFiles == [f \in CacheFiles |-> "absent"]

\* The request of a run over a catalog of distinct names: its names in order.
RequestAll(cat) ==
  LET n == IF Len(cat) = 0 THEN 1
           ELSE IF Len(cat) < MaxArgs THEN Len(cat) ELSE MaxArgs
  IN [j \in 1..n |-> NameSeq[j]]

InitUpdate ==
  /\ mode = "update"
  /\ args = <<>>
  /\ \E cat \in RunCatalogs : index = [packages |-> cat, patterns |-> <<>>]
  /\ \/ \E ledger \in Ledgers : disk = JsonFile(ledger)
     \/ disk \in {AbsentFile, CorruptFile}
  /\ files \in [CacheFiles -> {"absent", "complete"}]

InitInstallRun ==
  /\ mode = "install"
  /\ \E cat \in RunCatalogs :
       /\ index = [packages |-> cat, patterns |-> <<>>]
       /\ args = RequestAll(cat)
  /\ disk \in InstallLedgers
  /\ files \in [CacheFiles -> {"absent", "complete"}]

InitInstallSelect ==
  /\ mode = "install"
  /\ args \in SeqsUpTo(ReqTokens, 1, MaxArgs)
  /\ \E cat \in SelCatalogs : index = [packages |-> cat, patterns |-> <<>>]
  /\ disk \in {AbsentFile, JsonFile("B" :> Entry("0.9", 0))}
  /\ files = NoFiles

InitPattern ==
  /\ mode = "pattern"
  /\ args \in SeqsUpTo(PatTokens, 1, MaxArgs)
  /\ \E cat \in NamedCatalogs, pats \in PatternIndexes :
       index = [packages |-> cat, patterns |-> pats]
  /\ disk = AbsentFile
  /\ files = NoFiles

Init ==
  /\ InitUpdate \/ InitInstallRun \/ InitInstallSelect \/ InitPattern
  /\ disk0 = disk
  /\ pc = "start"
  /\ exit_code = None
  /\ packages = <<>>
  /\ patterns = <<>>
  /\ platform_key = None
  /\ state = <<>>
  /\ selected_packages = <<>>
  /\ ai = 1
  /\ i = 1
  /\ downloaded_file = None
  /\ ci = 1
  /\ updates_available = FALSE
  /\ clock = 1
  /\ log = <<>>
  /\ console = <<>>

(* ------------------------------ actions -------------------------------- *)

Event(e, k, n, c, r) == [ev |-> e, i |-> k, name |-> n, cmd |-> c, res |-> r]

Say(m, w, o) == [msg |-> m, what |-> w, of |-> o]

\* The packages the processing loop runs over.
Batch == IF mode = "update" THEN packages ELSE selected_packages

\* sys.exit(code)
Exit(code) ==
  /\ pc' = "exited"
  /\ exit_code' = code

\* main, line 188: fetch_index(INDEX_URL); a failure exits with status 1.
FetchIndex ==
  /\ pc = "start"
  /\ \/ /\ packages' = index.packages
        /\ patterns' = index.patterns
        /\ pc' = "check_packages"
        /\ UNCHANGED <<exit_code, console>>
     \/ /\ Exit(1)
        /\ console' = Append(console, Say("failed to fetch index", "", ""))
        /\ UNCHANGED <<packages, patterns>>
  /\ UNCHANGED <<mode, args, index, files, disk, disk0, platform_key, state,
                 selected_packages, ai, i, downloaded_file, ci,
                 updates_available, clock, log>>

\* main, lines 191-193: an empty catalog is fatal.
CheckPackages ==
  /\ pc = "check_packages"
  /\ IF packages = <<>>
     THEN /\ Exit(1)
          /\ console' = Append(console, Say("no packages available", "", ""))
     ELSE /\ pc' = "detect_platform"
          /\ UNCHANGED <<exit_code, console>>
  /\ UNCHANGED <<mode, args, index, files, disk, disk0, packages, patterns,
                 platform_key, state, selected_packages, ai, i,
                 downloaded_file, ci, updates_available, clock, log>>

\* Mutant of DetectPlatform: the test for the unknown platform key is missing.
DetectPlatform_NoCheck ==
  /\ pc = "detect_platform"
  /\ \E h \in Hosts : platform_key' = detect_platform(h[1], h[2])
  /\ pc' = "load_state"
  /\ UNCHANGED <<mode, args, index, files, disk, disk0, exit_code, packages,
                 patterns, state, selected_packages, ai, i, downloaded_file,
                 ci, updates_available, clock, log, console>>

\* main, lines 195-199: an unknown platform is fatal.
DetectPlatform ==
  /\ pc = "detect_platform"
  /\ \E h \in Hosts :
       /\ platform_key' = detect_platform(h[1], h[2])
       /\ IF platform_key' = "unknown"
          THEN /\ Exit(1)
               /\ console' = Append(console, Say("unsupported platform", "", ""))
          ELSE /\ pc' = "load_state"
               /\ UNCHANGED <<exit_code, console>>
  /\ UNCHANGED <<mode, args, index, files, disk, disk0, packages, patterns,
                 state, selected_packages, ai, i, downloaded_file, ci,
                 updates_available, clock, log>>

\* main, line 201, and the dispatch on the mode.
LoadState ==
  /\ pc = "load_state"
  /\ state' = load_state(disk)
  /\ pc' = IF mode = "update" THEN "check" ELSE "select"
  /\ UNCHANGED <<mode, args, index, files, disk, disk0, exit_code, packages,
                 patterns, platform_key, selected_packages, ai, i,
                 downloaded_file, ci, updates_available, clock, log, console>>

\* main, lines 205-211: one iteration of the loop over args.install.
SelectByName ==
  /\ pc = "select"
  /\ mode = "install"
  /\ ai <= Len(args)
  /\ LET pkg == FindPackage(packages, args[ai])
     IN IF pkg # NoPackage
        THEN /\ selected_packages' = AppendSelected(selected_packages, pkg)
             /\ UNCHANGED console
        ELSE /\ console' = Append(console, Say("package not found", args[ai], ""))
             /\ UNCHANGED selected_packages
  /\ ai' = ai + 1
  /\ UNCHANGED <<mode, args, index, files, disk, disk0, pc, exit_code, packages,
                 patterns, platform_key, state, i, downloaded_file, ci,
                 updates_available, clock, log>>

\* main, lines 230-240: one iteration of the loop over args.pattern.
SelectByPattern ==
  /\ pc = "select"
  /\ mode = "pattern"
  /\ ai <= Len(args)
  /\ LET pkg_names == PatternNames(patterns, args[ai])
     IN IF pkg_names = <<>>
        THEN /\ console' = Append(console, Say("pattern not found", args[ai], ""))
             /\ UNCHANGED selected_packages
        ELSE LET r == ResolveNames(packages, pkg_names, args[ai],
                                   selected_packages, console)
             IN /\ selected_packages' = r.sel
                /\ console' = r.out
  /\ ai' = ai + 1
  /\ UNCHANGED <<mode, args, index, files, disk, disk0, pc, exit_code, packages,
                 patterns, platform_key, state, i, downloaded_file, ci,
                 updates_available, clock, log>>

\* main, lines 212-216 and 241-245: an empty selection ends the run with
\* status 0, otherwise the processing loop starts.
EndSelection ==
  /\ pc = "select"
  /\ ai > Len(args)
  /\ IF selected_packages = <<>>
     THEN /\ Exit(0)
          /\ console' = Append(console, Say("no packages selected", "", ""))
     ELSE /\ pc' = "download"
          /\ UNCHANGED <<exit_code, console>>
  /\ UNCHANGED <<mode, args, index, files, disk, disk0, packages, patterns,
                 platform_key, state, selected_packages, ai, i,
                 downloaded_file, ci, updates_available, clock, log>>

\* Mutant of Download: the local_filename.exists() test of line 58 is missing,
\* every package with a url is downloaded again.
Download_NoCacheCheck ==
  /\ pc = "download"
  /\ LET pkg == Batch[i]
         f == Basename(pkg.url)
     IN \/ /\ pkg.url = ""
           /\ downloaded_file' = None
           /\ log' = Append(log, Event("fetch", i, pkg.name, 0, "none"))
           /\ UNCHANGED files
        \/ /\ pkg.url # ""
           /\ \/ /\ files' = [files EXCEPT ![f] = "complete"]
                 /\ downloaded_file' = f
                 /\ log' = Append(log, Event("fetch", i, pkg.name, 0, "ok"))
              \/ /\ files' \in {files, [files EXCEPT ![f] = "partial"]}
                 /\ downloaded_file' = None
                 /\ log' = Append(log, Event("fetch", i, pkg.name, 0, "fail"))
  /\ IF mode = "update" /\ downloaded_file' = None
     THEN /\ pc' = "check"
          /\ i' = i + 1
     ELSE /\ pc' = "install"
          /\ UNCHANGED i
  /\ UNCHANGED <<mode, args, index, disk, disk0, exit_code, packages, patterns,
                 platform_key, state, selected_packages, ai, ci,
                 updates_available, clock, console>>

\* download_package(pkg), lines 54-88, for the current package of the batch,
\* and the caller's use of its result: update_packages installs only when a
\* file was returned (lines 137, 147), the install loops always (lines 220, 249).
\* A download either completes, fails before the file is opened
\* (raise_for_status, connection error) or fails while streaming, after
\* open(local_filename, 'wb') created the file.
Download ==
  /\ pc = "download"
  /\ LET pkg == Batch[i]
         f == Basename(pkg.url)
     IN \/ /\ pkg.url = ""
           /\ downloaded_file' = None
           /\ log' = Append(log, Event("fetch", i, pkg.name, 0, "none"))
           /\ UNCHANGED files
        \/ /\ pkg.url # ""
           /\ files[f] # "absent"
           /\ downloaded_file' = f
           /\ log' = Append(log, Event("fetch", i, pkg.name, 0, "hit"))
           /\ UNCHANGED files
        \/ /\ pkg.url # ""
           /\ files[f] = "absent"
           /\ \/ /\ files' = [files EXCEPT ![f] = "complete"]
                 /\ downloaded_file' = f
                 /\ log' = Append(log, Event("fetch", i, pkg.name, 0, "ok"))
              \/ /\ files' \in {files, [files EXCEPT ![f] = "partial"]}
                 /\ downloaded_file' = None
                 /\ log' = Append(log, Event("fetch", i, pkg.name, 0, "fail"))
  /\ IF mode = "update" /\ downloaded_file' = None
     THEN /\ pc' = "check"
          /\ i' = i + 1
     ELSE /\ pc' = "install"
          /\ UNCHANGED i
  /\ UNCHANGED <<mode, args, index, disk, disk0, exit_code, packages, patterns,
                 platform_key, state, selected_packages, ai, ci,
                 updates_available, clock, console>>

\* The value install_package hands to its caller: the bare `return` of line
\* 104 (no commands ran) and the end of the body after line 106 (the commands
\* ran) both yield Python's None.
InstallReturn(ran) == None

\* install_package(pkg, downloaded_file, platform_key), lines 99-104: without
\* commands for the platform it returns, otherwise execute_commands starts.
\* A "return" event records the value returned and the number of commands run.
InstallPackage ==
  /\ pc = "install"
  /\ IF PlatformCommands(Batch[i], platform_key) = <<>>
     THEN /\ pc' = "write"
          /\ console' = Append(console, Say("no installation commands", Batch[i].name, ""))
          /\ log' = Append(log, Event("return", i, Batch[i].name, 0, InstallReturn(FALSE)))
          /\ UNCHANGED ci
     ELSE /\ pc' = "exec"
          /\ ci' = 1
          /\ UNCHANGED <<console, log>>
  /\ UNCHANGED <<mode, args, index, files, disk, disk0, exit_code, packages,
                 patterns, platform_key, state, selected_packages, ai, i,
                 downloaded_file, updates_available, clock>>

\* Mutant of ExecuteCommand: the exit status of a command is not checked
\* (subprocess.run without check=True), the loop goes on after a failure.
ExecuteCommand_Unchecked ==
  /\ pc = "exec"
  /\ LET cmds == PlatformCommands(Batch[i], platform_key)
     IN \E ok \in BOOLEAN :
          /\ log' = LET done == Append(log, Event("exec", i, Batch[i].name, cmds[ci],
                                                  IF ok THEN "ok" ELSE "fail"))
                    IN IF ci = Len(cmds)
                       THEN Append(done, Event("return", i, Batch[i].name, Len(cmds),
                                               InstallReturn(TRUE)))
                       ELSE done
          /\ UNCHANGED exit_code
          /\ IF ci < Len(cmds)
             THEN /\ ci' = ci + 1
                  /\ UNCHANGED pc
             ELSE /\ pc' = "write"
                  /\ UNCHANGED ci
  /\ UNCHANGED <<mode, args, index, files, disk, disk0, packages, patterns,
                 platform_key, state, selected_packages, ai, i,
                 downloaded_file, updates_available, clock, console>>

\* Mutant of ExecuteCommand: the commands are run from the last to the first.
ExecuteCommand_Reversed ==
  /\ pc = "exec"
  /\ LET cmds == PlatformCommands(Batch[i], platform_key)
     IN \E ok \in BOOLEAN :
          /\ log' = LET done == Append(log, Event("exec", i, Batch[i].name,
                                                  cmds[Len(cmds) - ci + 1],
                                                  IF ok THEN "ok" ELSE "fail"))
                    IN IF ok /\ ci = Len(cmds)
                       THEN Append(done, Event("return", i, Batch[i].name, Len(cmds),
                                               InstallReturn(TRUE)))
                       ELSE done
          /\ IF ~ok
             THEN /\ Exit(1)
                  /\ UNCHANGED ci
             ELSE /\ UNCHANGED exit_code
                  /\ IF ci < Len(cmds)
                     THEN /\ ci' = ci + 1
                          /\ UNCHANGED pc
                     ELSE /\ pc' = "write"
                          /\ UNCHANGED ci
  /\ UNCHANGED <<mode, args, index, files, disk, disk0, packages, patterns,
                 platform_key, state, selected_packages, ai, i,
                 downloaded_file, updates_available, clock, console>>

\* execute_commands, lines 91-97: one iteration; a non-zero exit status
\* raises CalledProcessError and the handler exits with status 1. After the
\* last command install_package returns to its caller (lines 105-106).
ExecuteCommand ==
  /\ pc = "exec"
  /\ LET cmds == PlatformCommands(Batch[i], platform_key)
     IN \E ok \in BOOLEAN :
          /\ log' = LET done == Append(log, Event("exec", i, Batch[i].name, cmds[ci],
                                                  IF ok THEN "ok" ELSE "fail"))
                    IN IF ok /\ ci = Len(cmds)
                       THEN Append(done, Event("return", i, Batch[i].name, Len(cmds),
                                               InstallReturn(TRUE)))
                       ELSE done
          /\ IF ~ok
             THEN /\ Exit(1)
                  /\ UNCHANGED ci
             ELSE /\ UNCHANGED exit_code
                  /\ IF ci < Len(cmds)
                     THEN /\ ci' = ci + 1
                          /\ UNCHANGED pc
                     ELSE /\ pc' = "write"
                          /\ UNCHANGED ci
  /\ UNCHANGED <<mode, args, index, files, disk, disk0, packages, patterns,
                 platform_key, state, selected_packages, ai, i,
                 downloaded_file, updates_available, clock, console>>

\* Mutant of LedgerWrite: an existing entry keeps its installed_at.
LedgerWrite_KeepTimestamp(st, pkg, t) ==
  (pkg.name :> Entry(pkg.version,
                     IF pkg.name \in DOMAIN st THEN st[pkg.name].installed_at ELSE t))
    @@ st

\* Mutant of LedgerWrite: the ledger is replaced by the one new entry.
LedgerWrite_Replace(st, pkg, t) == (pkg.name :> Entry(pkg.version, t))

\* state[pkg['name']] = {"version": ..., "installed_at": ...}
LedgerWrite(st, pkg, t) == (pkg.name :> Entry(pkg.version, t)) @@ st

\* Mutant of WriteEntry: the ledger file is rewritten after every mutation
\* instead of once at the end of the run.
WriteEntry_SaveEach ==
  /\ pc = "write"
  /\ \E t \in {clock, clock + 1} :
       /\ clock' = t
       /\ state' = (Batch[i].name :> Entry(Batch[i].version, t)) @@ state
       /\ log' = Append(log, Event("write", i, Batch[i].name, 0, "-"))
  /\ disk' = JsonFile(state')
  /\ updates_available' = IF mode = "update" THEN TRUE ELSE updates_available
  /\ i' = i + 1
  /\ pc' = IF mode = "update" THEN "check"
           ELSE IF i + 1 <= Len(selected_packages) THEN "download" ELSE "save"
  /\ UNCHANGED <<mode, args, index, files, disk0, exit_code, packages,
                 patterns, platform_key, selected_packages, ai,
                 downloaded_file, ci, console>>

\* The ledger mutation after install_package returned (lines 221-224,
\* 250-253, 139-143, 149-153) and the step to the next package. The output
\* of `date` is the wall clock, which may have advanced since it was last read.
WriteEntry ==
  /\ pc = "write"
  /\ \E t \in {clock, clock + 1} :
       /\ clock' = t
       /\ state' = LedgerWrite(state, Batch[i], t)
       /\ log' = Append(log, Event("write", i, Batch[i].name, 0, "-"))
  /\ updates_available' = IF mode = "update" THEN TRUE ELSE updates_available
  /\ i' = i + 1
  /\ pc' = IF mode = "update" THEN "check"
           ELSE IF i + 1 <= Len(selected_packages) THEN "download" ELSE "save"
  /\ UNCHANGED <<mode, args, index, files, disk, disk0, exit_code, packages,
                 patterns, platform_key, selected_packages, ai,
                 downloaded_file, ci, console>>

\* save_state(state), lines 121-124, at the end of an install run
\* (lines 225, 254).
SaveState ==
  /\ pc = "save"
  /\ disk' = JsonFile(state)
  /\ log' = Append(log, Event("save", 0, "", 0, "-"))
  /\ console' = Append(console, Say("installation completed", "", ""))
  /\ pc' = "done"
  /\ exit_code' = 0
  /\ UNCHANGED <<mode, args, index, files, disk0, packages, patterns,
                 platform_key, state, selected_packages, ai, i,
                 downloaded_file, ci, updates_available, clock>>

\* update_packages, lines 129-135 and 144-145: one iteration of the loop up
\* to the decision; a triggered package goes on to download_package.
UpdateCheck ==
  /\ pc = "check"
  /\ i <= Len(packages)
  /\ LET pkg == packages[i]
     IN IF /\ pkg.name \in DOMAIN state
           /\ NeedsUpdate(pkg.version, state[pkg.name].version)
        THEN /\ log' = Append(log, Event("trigger", i, pkg.name, 0, "-"))
             /\ pc' = "download"
             /\ UNCHANGED i
        ELSE /\ i' = i + 1
             /\ UNCHANGED <<pc, log>>
  /\ UNCHANGED <<mode, args, index, files, disk, disk0, exit_code, packages,
                 patterns, platform_key, state, selected_packages, ai,
                 downloaded_file, ci, updates_available, clock, console>>

\* Mutant of UpdateFinish: the ledger is saved at the end of every update run.
UpdateFinish_AlwaysSave ==
  /\ pc = "check"
  /\ i > Len(packages)
  /\ disk' = JsonFile(state)
  /\ log' = Append(log, Event("save", 0, "", 0, "-"))
  /\ console' = Append(console, Say(IF updates_available THEN "update completed"
                                    ELSE "up to date", "", ""))
  /\ pc' = "done"
  /\ exit_code' = 0
  /\ UNCHANGED <<mode, args, index, files, disk0, packages, patterns,
                 platform_key, state, selected_packages, ai, i,
                 downloaded_file, ci, updates_available, clock>>

\* update_packages, lines 154-158: the ledger is saved only when a package
\* was updated; the report tells the two cases apart.
UpdateFinish ==
  /\ pc = "check"
  /\ i > Len(packages)
  /\ IF updates_available
     THEN /\ disk' = JsonFile(state)
          /\ log' = Append(log, Event("save", 0, "", 0, "-"))
          /\ console' = Append(console, Say("update completed", "", ""))
     ELSE /\ console' = Append(console, Say("up to date", "", ""))
          /\ UNCHANGED <<disk, log>>
  /\ pc' = "done"
  /\ exit_code' = 0
  /\ UNCHANGED <<mode, args, index, files, disk0, packages, patterns,
                 platform_key, state, selected_packages, ai, i,
                 downloaded_file, ci, updates_available, clock>>

Next ==
  \/ FetchIndex
  \/ CheckPackages
  \/ DetectPlatform
  \/ LoadState
  \/ SelectByName
  \/ SelectByPattern
  \/ EndSelection
  \/ Download
  \/ InstallPackage
  \/ ExecuteCommand
  \/ WriteEntry
  \/ SaveState
  \/ UpdateCheck
  \/ UpdateFinish

Spec == Init /\ [][Next]_vars

(* ------------------------ history of the run --------------------------- *)

Min(S) == CHOOSE x \in S : \A y \in S : x <= y

\* The package names the request asks for, in request order: the tokens of
\* an install-by-name request, the lists of the requested patterns otherwise.
RECURSIVE Flatten(_)
Flatten(ss) == IF ss = <<>> THEN <<>> ELSE Head(ss) \o Flatten(Tail(ss))

RequestedNames ==
  IF mode = "pattern"
  THEN Flatten([t \in DOMAIN args |-> PatternNames(patterns, args[t])])
  ELSE args

\* Position in the request of the first name that matches the package, 0 if
\* no requested name matches it.
FirstRequest(pkg) ==
  LET hits == {t \in DOMAIN RequestedNames :
                 Lower(RequestedNames[t]) = Lower(pkg.name)}
  IN IF hits = {} THEN 0 ELSE Min(hits)

SelectionEnded ==
  /\ mode \in {"install", "pattern"}
  /\ pc \in {"download", "install", "exec", "write", "save", "done"}

\* The side effects recorded for the package at position j of the batch.
Fetched(j) == \E k \in DOMAIN log : log[k].ev = "fetch" /\ log[k].i = j

FetchFailed(j) ==
  \E k \in DOMAIN log : log[k].ev = "fetch" /\ log[k].i = j /\ log[k].res = "fail"

Executed(j, c) ==
  \E k \in DOMAIN log : log[k].ev = "exec" /\ log[k].i = j /\ log[k].cmd = c

ExecutedAny(j) == \E k \in DOMAIN log : log[k].ev = "exec" /\ log[k].i = j

Written(j) == \E k \in DOMAIN log : log[k].ev = "write" /\ log[k].i = j

Triggered(j) == \E k \in DOMAIN log : log[k].ev = "trigger" /\ log[k].i = j

CommandFailed == \E k \in DOMAIN log : log[k].ev = "exec" /\ log[k].res = "fail"

\* The ledger as loaded at the start of the run.
Loaded == load_state(disk0)

\* The processing of the package at position j is over.
Passed(j) == i > j \/ pc = "done"

\* A non-empty command sequence for the platform ran to completion for the
\* package at position j.
Completed(j) ==
  LET cmds == PlatformCommands(Batch[j], platform_key)
  IN /\ cmds # <<>>
     /\ \A c \in DOMAIN cmds :
          \E k \in DOMAIN log :
            log[k].ev = "exec" /\ log[k].i = j /\ log[k].cmd = cmds[c] /\ log[k].res = "ok"

(* ------------------------------ claims --------------------------------- *)

\* C1: the resolved package list never holds two packages of the same name,
\* every package of it was matched by a requested name, and the packages
\* stand in the order in which the request first matched them.
C1_NoDuplicatesFirstSeenOrder ==
  /\ \A p, q \in DOMAIN selected_packages :
       p # q => selected_packages[p].name # selected_packages[q].name
  /\ \A p \in DOMAIN selected_packages :
       /\ selected_packages[p] \in Range(packages)
       /\ FirstRequest(selected_packages[p]) > 0
  /\ \A p, q \in DOMAIN selected_packages :
       p < q => FirstRequest(selected_packages[p]) < FirstRequest(selected_packages[q])

\* C1 witness: a request that names one package twice, up to letter case,
\* has been resolved to a single package.
C1_Witness ==
  /\ SelectionEnded
  /\ Len(RequestedNames) = 2
  /\ RequestedNames[1] # RequestedNames[2]
  /\ Lower(RequestedNames[1]) = Lower(RequestedNames[2])
  /\ Len(selected_packages) = 1

\* C2: a package whose artifact fetch failed has no install command executed
\* and no ledger entry written in the run, and the batch goes on: a run that
\* ends normally has fetched every package of an install batch.
C2_FetchFailureSkipsPackage ==
  /\ \A j \in DOMAIN Batch :
       FetchFailed(j) => ~ExecutedAny(j) /\ ~Written(j)
  /\ (pc = "done" /\ mode # "update") => \A j \in DOMAIN Batch : Fetched(j)

\* C3: a command that exited non-zero is the last side effect of the run:
\* nothing is fetched, executed, written to the ledger or saved after it,
\* the in-memory and on-disk ledgers keep the values they had, and the
\* process has exited with status 1.
C3_FailedCommandEndsRun ==
  \A k \in DOMAIN log :
    (log[k].ev = "exec" /\ log[k].res = "fail")
      => /\ k = Len(log)
         /\ pc = "exited"
         /\ exit_code = 1
         /\ disk = disk0
         /\ ~Written(log[k].i)

\* C3 witness: the failing command is not the last command of its package
\* and its package is not the last of the batch.
C3_Witness ==
  \E k \in DOMAIN log :
    /\ log[k].ev = "exec"
    /\ log[k].res = "fail"
    /\ log[k].cmd < Len(PlatformCommands(Batch[log[k].i], platform_key))
    /\ log[k].i < Len(Batch)
    /\ pc = "exited"

\* C4: in update mode a package of the index is triggered if and only if the
\* ledger has an entry for it and either the index version is "latest" and
\* the ledger version is not, or the index version is not "latest" and the
\* ledger version differs from it.
C4_UpdateTriggerRule ==
  mode = "update" =>
    \A j \in DOMAIN packages :
      LET n == packages[j].name
          v == packages[j].version
          due == /\ n \in DOMAIN Loaded
                 /\ \/ v = "latest" /\ Loaded[n].version # "latest"
                    \/ v # "latest" /\ Loaded[n].version # v
      IN /\ Triggered(j) => due
         /\ (pc \notin {"check_packages", "detect_platform", "load_state"} /\ i > j)
              => (due => Triggered(j))

\* C4 witness: an update run has ended in which one package was triggered
\* and another, recorded as "latest" and indexed as "latest", was not.
C4_Witness ==
  /\ mode = "update"
  /\ pc = "done"
  /\ \E j, k \in DOMAIN packages :
       /\ Triggered(j)
       /\ packages[j].version = "latest"
       /\ Loaded[packages[j].name].version = "1.0"
       /\ ~Triggered(k)
       /\ packages[k].version = "latest"
       /\ packages[k].name \in DOMAIN Loaded
       /\ Loaded[packages[k].name].version = "latest"

\* C5: every ledger entry written in the run belongs to a package for which
\* a non-empty command sequence for the platform ran to completion.
C5_WriteOnlyAfterCommandsRan ==
  \A j \in DOMAIN Batch : Written(j) => Completed(j)

\* C6: a package without a url that was selected for installation or
\* triggered for update, has commands for the platform and whose processing
\* is over has had its command sequence executed.
C6_NoUrlPackageInstalled ==
  \A j \in DOMAIN Batch :
    ( /\ Batch[j].url = ""
      /\ PlatformCommands(Batch[j], platform_key) # <<>>
      /\ IF mode = "update" THEN Triggered(j) ELSE Fetched(j)
      /\ Passed(j) )
    => Completed(j)

\* C7: once the update of a package has succeeded in an update run, its
\* ledger entry holds the version of the index and an installed_at other than
\* the one loaded; a run that ends normally has persisted that entry.
C7_SuccessfulUpdateRecorded ==
  mode = "update" =>
    \A j \in DOMAIN packages :
      (Completed(j) /\ Written(j)) =>
        LET n == packages[j].name
        IN /\ n \in DOMAIN state
           /\ state[n].version = packages[j].version
           /\ state[n].installed_at # Loaded[n].installed_at
           /\ pc = "done" =>
                /\ disk.kind = "json"
                /\ n \in DOMAIN disk.data
                /\ disk.data[n] = state[n]

\* C7 witness: an update run has ended after a package was updated from a
\* pinned version to another.
C7_Witness ==
  /\ mode = "update"
  /\ pc = "done"
  /\ \E j \in DOMAIN packages :
       /\ Completed(j)
       /\ Written(j)
       /\ packages[j].version = "1.0"
       /\ Loaded[packages[j].name].version = "0.9"

\* C8: an update run that ends normally leaves the persisted entry of every
\* package that was not updated (not triggered, or triggered but not
\* installed) as it was, and when no package was updated the ledger file is
\* unchanged and the run reports "up to date".
C8_UpdateChangesOnlyUpdated ==
  (mode = "update" /\ pc = "done") =>
    LET after == load_state(disk)
        Updated(n) == \E j \in DOMAIN packages :
                        packages[j].name = n /\ Triggered(j) /\ Completed(j)
    IN /\ \A n \in DOMAIN Loaded \cup DOMAIN after :
            ~Updated(n) =>
              /\ n \in DOMAIN Loaded
              /\ n \in DOMAIN after
              /\ after[n] = Loaded[n]
       /\ (~\E j \in DOMAIN packages : Updated(packages[j].name)) =>
            /\ disk = disk0
            /\ console[Len(console)].msg = "up to date"

\* The ledger file holds the loaded ledger plus a complete entry for every
\* package whose install completed in the run, and nothing else.
LedgerFileHoldsCompletedWork ==
  /\ disk.kind = "json"
  /\ \A n \in DOMAIN Loaded \cup DOMAIN disk.data \cup {Batch[j].name : j \in DOMAIN Batch} :
       IF \E j \in DOMAIN Batch : Batch[j].name = n /\ Completed(j)
       THEN /\ n \in DOMAIN disk.data
            /\ \E j \in DOMAIN Batch :
                 /\ Batch[j].name = n
                 /\ Completed(j)
                 /\ disk.data[n].version = Batch[j].version
            /\ disk.data[n].installed_at \in 1..clock
       ELSE /\ n \in DOMAIN disk.data <=> n \in DOMAIN Loaded
            /\ n \in DOMAIN Loaded => disk.data[n] = Loaded[n]

\* C9: after a run ended by a fatal condition (exit status 1) the ledger file
\* is the pre-run file, or the pre-run ledger plus a complete entry for every
\* package whose install completed; it holds no entry for any other package
\* of the run.
C9_FatalLeavesLedgerFile ==
  (pc = "exited" /\ exit_code = 1) =>
    disk = disk0 \/ LedgerFileHoldsCompletedWork

\* C9 witness: a command failed after an earlier package of the run had been
\* installed and its entry written to the in-memory ledger.
C9_Witness ==
  /\ pc = "exited"
  /\ exit_code = 1
  /\ CommandFailed
  /\ \E j \in DOMAIN Batch : Completed(j) /\ Written(j)

\* C10: when the pattern selection is over, every requested pattern name that
\* equals a pattern name of the index up to letter case has had the packages
\* of that pattern resolved (each matched by name up to letter case), and a
\* requested name that matches no pattern of the index was warned about.
C10_PatternLookupIgnoresCase ==
  (mode = "pattern" /\ pc \in {"select", "download"} /\ ai > Len(args)) =>
    \A t \in DOMAIN args :
      /\ \A key \in DOMAIN patterns :
           Lower(args[t]) = Lower(key) =>
             \A m \in DOMAIN patterns[key] :
               FindPackage(packages, patterns[key][m]) # NoPackage =>
                 FindPackage(packages, patterns[key][m]) \in Range(selected_packages)
      /\ (~\E key \in DOMAIN patterns : Lower(args[t]) = Lower(key)) =>
           \E k \in DOMAIN console :
             console[k].msg = "pattern not found" /\ console[k].what = args[t]

\* C11: install_package hands its caller a result that tells "skipped" (no
\* command ran) from "succeeded" (a non-empty command sequence ran to
\* completion): a return after no command and a return after commands never
\* carry the same value.
C11_SkippedDiffersFromSucceeded ==
  \A k, m \in DOMAIN log :
    (/\ log[k].ev = "return"
     /\ log[m].ev = "return"
     /\ log[k].cmd = 0
     /\ log[m].cmd > 0)
    => log[k].res # log[m].res

\* C12: a call of download_package for a package whose file (the last path
\* segment of its url) exists in the cache downloads nothing, leaves the
\* cache as it is and returns the path of the existing file.
C12_CacheHitSkipsFetch ==
  [][(/\ pc = "download"
      /\ Batch[i].url # ""
      /\ files[Basename(Batch[i].url)] # "absent")
     => (/\ files' = files
         /\ downloaded_file' = Basename(Batch[i].url)
         /\ log' = Append(log, Event("fetch", i, Batch[i].name, 0, "hit")))]_vars

\* C12 witness: in one run a package was downloaded and a later package with
\* the same url was served from the cache.
C12_Witness ==
  \E k, m \in DOMAIN log :
    /\ k < m
    /\ log[k].ev = "fetch"
    /\ log[k].res = "ok"
    /\ log[m].ev = "fetch"
    /\ log[m].res = "hit"
    /\ log[k].i # log[m].i
    /\ downloaded_file = Basename(Batch[log[m].i].url)

\* C13: when the platform key is unknown or the fetched index has no
\* packages, the run halts with status 1 before any processing: nothing is
\* selected, fetched, executed or written, the ledger is not loaded and the
\* ledger file is as it was.
C13_HaltBeforeProcessing ==
  (platform_key = "unknown" \/ (pc # "start" /\ index.packages = <<>>)) =>
    /\ pc \in {"check_packages", "exited"}
    /\ pc = "exited" => exit_code = 1
    /\ selected_packages = <<>>
    /\ ai = 1
    /\ log = <<>>
    /\ state = <<>>
    /\ disk = disk0

\* C13 witness: an install run on an unknown platform has exited while the
\* ledger file holds entries and the index holds packages.
C13_Witness ==
  /\ platform_key = "unknown"
  /\ pc = "exited"
  /\ mode = "install"
  /\ packages # <<>>
  /\ disk.kind = "json"
  /\ disk.data # <<>>

\* The place of an event in the processing of one package.
Rank(e) ==
  CASE e.ev = "trigger" -> 0
    [] e.ev = "fetch" -> 1
    [] e.ev = "exec" -> 2
    [] e.ev = "return" -> 3
    [] e.ev = "write" -> 4
    [] OTHER -> 5

\* The commands executed for the package at position j, in execution order.
ExecutedCommands(j) ==
  LET OfPackage(e) == e.ev = "exec" /\ e.i = j
      execs == SelectSeq(log, OfPackage)
  IN [k \in DOMAIN execs |-> execs[k].cmd]

\* C14: packages are processed one at a time in batch order: every fetch,
\* command and ledger mutation of a package precedes every event of a later
\* package; within a package the single fetch precedes every command, the
\* commands run in declared order, and every command precedes the single
\* ledger mutation.
C14_SequentialOrder ==
  /\ \A k, m \in DOMAIN log :
       (k < m /\ log[k].ev # "save" /\ log[m].ev # "save") =>
         /\ log[k].i <= log[m].i
         /\ log[k].i = log[m].i =>
              IF log[k].ev = "exec" /\ log[m].ev = "exec"
              THEN TRUE
              ELSE Rank(log[k]) < Rank(log[m])
  /\ \A j \in DOMAIN Batch :
       LET cmds == PlatformCommands(Batch[j], platform_key)
           ran == ExecutedCommands(j)
       IN /\ Len(ran) <= Len(cmds)
          /\ ran = SubSeq(cmds, 1, Len(ran))

\* C14 witness: a run has ended in which two packages were each fetched,
\* installed by all their commands and recorded.
C14_Witness ==
  /\ pc = "done"
  /\ \E j, k \in DOMAIN Batch :
       /\ j < k
       /\ Fetched(j) /\ Completed(j) /\ Written(j)
       /\ Fetched(k) /\ Completed(k) /\ Written(k)
       /\ Len(PlatformCommands(Batch[j], platform_key)) > 1

\* The positions of the log at which the ledger file was written.
Saves == {k \in DOMAIN log : log[k].ev = "save"}

\* Some ledger entry was written during the run.
WrittenAny == \E k \in DOMAIN log : log[k].ev = "write"

\* C15 as stated: every run that processes its whole batch writes the ledger
\* file exactly once, after the last package, and no run writes the file
\* before that.
C15_PersistedExactlyOnce ==
  /\ pc # "done" => (Saves = {} /\ disk = disk0)
  /\ pc = "done" => (Saves = {Len(log)} /\ disk = JsonFile(state))

\* C15 amended: no run writes the ledger file before its whole batch is
\* processed and no run writes it twice. An install-by-name or
\* install-by-pattern run that processes its batch, and an update run in
\* which at least one ledger entry was written, writes the file exactly once,
\* as its last step; an update run that wrote no ledger entry does not write
\* the file at all.
C15_PersistedAtMostOnceAtEnd ==
  /\ pc # "done" => (Saves = {} /\ disk = disk0)
  /\ pc = "done" =>
       IF mode = "update" /\ ~WrittenAny
       THEN Saves = {} /\ disk = disk0
       ELSE Saves = {Len(log)} /\ disk = JsonFile(state)

\* C15 witness: an update run has ended in which one package was updated and
\* an earlier one was triggered but not fetched, and the file was written once.
C15_Witness ==
  /\ mode = "update"
  /\ pc = "done"
  /\ \E j, k \in DOMAIN packages :
       /\ j < k
       /\ FetchFailed(j)
       /\ Written(k)
  /\ Saves = {Len(log)}
  /\ disk = JsonFile(state)
  /\ disk # disk0

\* The packages a second update run on the same index would trigger, given
\* the ledger file the first run left.
TriggeredAgain ==
  LET ledger == load_state(disk)
  IN {j \in DOMAIN packages :
        /\ packages[j].name \in DOMAIN ledger
        /\ NeedsUpdate(packages[j].version, ledger[packages[j].name].version)}

\* C16: an update run that ended with no fetch failure and no failing command
\* leaves a ledger file for which a second update run on the same index and
\* platform triggers no package.
C16_UpdateConverges ==
  ( /\ mode = "update"
    /\ pc = "done"
    /\ \A j \in DOMAIN packages : ~FetchFailed(j)
    /\ ~CommandFailed )
  => TriggeredAgain = {}

\* C17: the cache never holds an incomplete artifact: a file is in the cache
\* only as a whole, and after a fetch that failed the file of that package
\* is absent, so that the next call for it downloads again.
C17_CacheHoldsOnlyCompleteFiles ==
  /\ \A f \in CacheFiles : files[f] \in {"absent", "complete"}
  /\ \A k \in DOMAIN log :
       (log[k].ev = "fetch" /\ log[k].res = "fail" /\ k = Len(log))
       => files[Basename(Batch[log[k].i].url)] = "absent"

\* The names, as spelled in the index, of the resolved packages.
SelectedNames == {selected_packages[j].name : j \in DOMAIN selected_packages}

\* C18: an install-by-name or install-by-pattern run that completes leaves a
\* ledger file that is the loaded ledger with exactly the entries of the
\* resolved packages overwritten: each is keyed by the name the index spells
\* and holds the index version and a timestamp of this run; every other
\* loaded entry is unchanged and none is removed.
C18_InstallOverwritesResolvedOnly ==
  (mode \in {"install", "pattern"} /\ pc = "done") =>
    /\ disk.kind = "json"
    /\ DOMAIN disk.data = DOMAIN Loaded \cup SelectedNames
    /\ \A j \in DOMAIN selected_packages :
         /\ selected_packages[j] \in Range(packages)
         /\ disk.data[selected_packages[j].name].version = selected_packages[j].version
         /\ disk.data[selected_packages[j].name].installed_at \in 1..clock
    /\ \A n \in DOMAIN Loaded \ SelectedNames : disk.data[n] = Loaded[n]

\* C18 witness: an install-by-name run has completed in which a package was
\* requested in a spelling other than the index's and the loaded ledger held
\* an entry of a package outside the resolved list.
C18_Witness ==
  /\ mode = "install"
  /\ pc = "done"
  /\ \E j \in DOMAIN selected_packages :
       /\ selected_packages[j].name \notin Range(args)
       /\ selected_packages[j].name \in DOMAIN disk.data
  /\ \E n \in DOMAIN Loaded \ SelectedNames :
       /\ Lower(n) \in {Lower(m) : m \in SelectedNames}
       /\ disk.data[n] = Loaded[n]

====
